---- MODULE Spec2Model ----
(***************************************************************************)
(* Model of python/setup.py: the packaging script of PySpark.              *)
(*                                                                         *)
(* The script is a straight-line module body.  Every filesystem call and   *)
(* every call of a collaborator (pypandoc, setuptools.setup) is one atomic *)
(* step of a run; MaxRuns invocations of the script share one working      *)
(* directory and may interleave step by step (a sequence of runs is the    *)
(* interleaving in which one run ends before the next one starts).         *)
(*                                                                         *)
(* Filesystem (paths relative to the working directory, python/):          *)
(*   marker          ../core/src/main/scala/org/apache/spark/              *)
(*                   SparkContext.scala is a file                          *)
(*   deps            TEMP_PATH "deps" is a directory                       *)
(*   entry[e]        what deps/jars, deps/bin, deps/examples are:          *)
(*                   "absent", "link" (a symlink) or "dir" (a directory)   *)
(*   spark_bin       SCRIPTS_PATH ../bin: whether it is a directory, and   *)
(*                   the names in it                                       *)
(*   staged_scripts  the names in deps/bin when it is a real directory     *)
(*                   (other than find_spark_home.py)                       *)
(*   helper_target   content of deps/bin/find_spark_home.py (0: no file)   *)
(*   helper_src      content of pyspark/find_spark_home.py  (0: no file)   *)
(*   shell_src       content of pyspark/shell.py            (0: no file)   *)
(*   internal_dir    pyspark/python/pyspark is a directory                 *)
(*   shell_target    content of pyspark/python/pyspark/shell.py (0: none)  *)
(*                                                                         *)
(* Per run p:                                                              *)
(*   pc[p]               the statement the run is at                       *)
(*   in_spark[p]         the module variable in_spark (set at line 21)     *)
(*   long_description[p] the module variable long_description              *)
(*   scripts[p]          the module variable scripts (line 62)             *)
(*   err[p]              the exception that is propagating ("None": none)  *)
(*   masked[p]           the exception that was propagating when a         *)
(*                       statement of the finally block raised             *)
(*   setup_calls[p]      the arguments setup() was called with             *)
(*   trace[p]            the effects of the run so far, in order           *)
(*   replaced[p]         the copy targets that existed when the run wrote  *)
(*                       them (history, for the properties)                *)
(*   preceded[p]         the runs that had ended when run p started        *)
(*                       (history, for the properties)                     *)
(***************************************************************************)
EXTENDS Integers, Sequences, FiniteSets, TLC

VARIABLES marker, deps, entry, spark_bin, staged_scripts, helper_target,
          helper_src, shell_src, internal_dir, shell_target,
          pc, in_spark, long_description, scripts, err, masked,
          setup_calls, trace, replaced, preceded

fs == <<marker, deps, entry, spark_bin, staged_scripts, helper_target,
        helper_src, shell_src, internal_dir, shell_target>>

vars == <<marker, deps, entry, spark_bin, staged_scripts, helper_target,
          helper_src, shell_src, internal_dir, shell_target,
          pc, in_spark, long_description, scripts, err, masked,
          setup_calls, trace, replaced, preceded>>

\* Number of invocations of the script against the same working directory.
MaxRuns == 2

\* File contents are 1..MaxContent; 0 stands for "no such file".
MaxContent == 2

Runs == 1..MaxRuns

\* Names that the launcher-scripts directory may hold besides the helper.
OtherScripts == {"pyspark"}

TEMP_PATH == "deps"

SCRIPTS_TARGET == TEMP_PATH \o "/bin"

\* The three entries of the symlink farm, in the order the script makes them.
Entries == {"jars", "bin", "examples"}

Undefined == "<undefined>"

Converted == "<rst of README.md>"

Placeholder == "!!!!! missing pandoc do not upload to PyPi !!!!"

\* os.path.isdir(SCRIPTS_TARGET): a directory, or a symlink to one.
ScriptsTargetIsDir ==
    \/ entry["bin"] = "dir"
    \/ entry["bin"] = "link" /\ spark_bin.exists

\* os.listdir(SCRIPTS_TARGET), when SCRIPTS_TARGET is a directory.
ScriptNames ==
    (IF entry["bin"] = "dir" THEN staged_scripts ELSE spark_bin.files)
        \cup (IF helper_target # 0 THEN {"find_spark_home.py"} ELSE {})

\* The exit status of the process, given the exception that leaves the module:
\* none: 0; SystemExit(-1) from exit(-1): 255; any other: a traceback and 1.
ExitStatus(e) ==
    IF e = "None" THEN 0
    ELSE IF e \in {"AlreadyStagedExit", "MissingArtifactsExit"} THEN 255
    ELSE 1

Log(p, ev) == trace' = [trace EXCEPT ![p] = Append(@, ev)]

Goto(p, l) == pc' = [pc EXCEPT ![p] = l]

\* Raise without the try/finally around it: the exception leaves the module
\* at once and the cleanup is skipped.
Raise_PastFinally(p, e) ==
    /\ err' = [err EXCEPT ![p] = e]
    /\ pc' = [pc EXCEPT ![p] = "done"]

\* An exception raised inside the try block: control goes to the finally block.
Raise(p, e) ==
    /\ err' = [err EXCEPT ![p] = e]
    /\ pc' = [pc EXCEPT ![p] = "finally"]

\* An exception raised by a statement of the finally block: it replaces the
\* exception that was propagating, and the rest of the block is skipped.
RaiseInFinally(p) ==
    /\ masked' = [masked EXCEPT ![p] = err[p]]
    /\ err' = [err EXCEPT ![p] = "TeardownError"]
    /\ pc' = [pc EXCEPT ![p] = "done"]

InTreeInit ==
    /\ marker = TRUE
    /\ \E layout \in {"clean", "empty", "links"} :
          /\ deps = (layout # "clean")
          /\ entry = [e \in Entries |-> IF layout = "links" THEN "link" ELSE "absent"]
    /\ \E ex \in BOOLEAN, fl \in SUBSET OtherScripts :
          /\ ex \/ fl = {}
          /\ spark_bin = [exists |-> ex, files |-> fl]
    /\ staged_scripts = {}
    /\ helper_target = 0
    /\ helper_src = 1
    /\ shell_src = 1
    /\ internal_dir = FALSE
    /\ shell_target = 0

StagedInit ==
    /\ marker = FALSE
    /\ spark_bin = [exists |-> FALSE, files |-> {}]
    /\ \E layout \in {"clean", "empty", "dirs"} :
          /\ deps = (layout # "clean")
          /\ entry = [e \in Entries |-> IF layout = "dirs" THEN "dir" ELSE "absent"]
          /\ staged_scripts \in SUBSET OtherScripts
          /\ helper_target \in 0..MaxContent
          /\ layout # "dirs" => staged_scripts = {} /\ helper_target = 0
    /\ helper_src \in 0..MaxContent
    /\ shell_src \in 0..MaxContent
    /\ internal_dir \in BOOLEAN
    /\ shell_target \in 0..MaxContent
    /\ ~internal_dir => shell_target = 0

Init ==
    /\ InTreeInit \/ StagedInit
    /\ pc = [p \in Runs |-> "start"]
    /\ in_spark = [p \in Runs |-> FALSE]
    /\ long_description = [p \in Runs |-> Undefined]
    /\ scripts = [p \in Runs |-> {}]
    /\ err = [p \in Runs |-> "None"]
    /\ masked = [p \in Runs |-> "None"]
    /\ setup_calls = [p \in Runs |-> {}]
    /\ trace = [p \in Runs |-> <<>>]
    /\ replaced = [p \in Runs |-> {}]
    /\ preceded = [p \in Runs |-> {}]

\* line 21: in_spark = os.path.isfile(marker)
DetectContext(p) ==
    /\ pc[p] = "start"
    /\ in_spark' = [in_spark EXCEPT ![p] = marker]
    /\ Goto(p, IF marker THEN "mkdir" ELSE "copy_helper")
    /\ preceded' = [preceded EXCEPT ![p] = {q \in Runs : pc[q] = "done"}]
    /\ UNCHANGED <<fs, long_description, scripts, err, masked, setup_calls, trace, replaced>>

\* MakeStagingRoot as os.makedirs(TEMP_PATH, exist_ok=True) would behave: an
\* existing staging root is taken over silently.
MakeStagingRoot_ExistOk(p) ==
    /\ pc[p] = "mkdir"
    /\ deps' = TRUE
    /\ Goto(p, "symlink_jars")
    /\ Log(p, "mkdir")
    /\ UNCHANGED <<marker, entry, spark_bin, staged_scripts, helper_target,
                   helper_src, shell_src, internal_dir, shell_target,
                   in_spark, long_description, scripts, err, masked, setup_calls,
                   replaced, preceded>>

\* MakeStagingRoot with the mkdir moved inside the try block: the exit(-1)
\* passes through the finally block.
MakeStagingRoot_InsideTry(p) ==
    /\ pc[p] = "mkdir"
    /\ IF deps
         THEN /\ Raise(p, "AlreadyStagedExit")
              /\ UNCHANGED <<deps, trace>>
         ELSE /\ deps' = TRUE
              /\ Goto(p, "symlink_jars")
              /\ Log(p, "mkdir")
              /\ UNCHANGED err
    /\ UNCHANGED <<marker, entry, spark_bin, staged_scripts, helper_target,
                   helper_src, shell_src, internal_dir, shell_target,
                   in_spark, long_description, scripts, masked, setup_calls,
                   replaced, preceded>>

\* lines 22-28: os.mkdir(TEMP_PATH); on any error print and exit(-1), outside
\* the try block, so that the finally block does not run.
MakeStagingRoot(p) ==
    /\ pc[p] = "mkdir"
    /\ IF deps
         THEN /\ err' = [err EXCEPT ![p] = "AlreadyStagedExit"]
              /\ Goto(p, "done")
              /\ UNCHANGED <<deps, trace>>
         ELSE /\ deps' = TRUE
              /\ Goto(p, "symlink_jars")
              /\ Log(p, "mkdir")
              /\ UNCHANGED err
    /\ UNCHANGED <<marker, entry, spark_bin, staged_scripts, helper_target,
                   helper_src, shell_src, internal_dir, shell_target,
                   in_spark, long_description, scripts, masked, setup_calls, replaced, preceded>>

\* AfterSymlink with the README converted right after the first link.
AfterSymlink_ConvertsEarly(e) ==
    CASE e = "jars" -> "convert"
      [] e = "bin" -> "symlink_examples"
      [] e = "examples" -> "convert"

AfterSymlink(e) ==
    CASE e = "jars" -> "symlink_bin"
      [] e = "bin" -> "symlink_examples"
      [] e = "examples" -> "convert"

\* lines 33-35: os.symlink(source, deps/<e>).  It raises OSError when the target
\* exists, when deps is no directory, or when the system refuses the link.
Symlink(p, e) ==
    /\ pc[p] = "symlink_" \o e
    /\ \E refused \in BOOLEAN :
          IF refused \/ ~deps \/ entry[e] # "absent"
            THEN /\ Raise(p, "LinkError")
                 /\ UNCHANGED <<entry, trace>>
            ELSE /\ entry' = [entry EXCEPT ![e] = "link"]
                 /\ Goto(p, AfterSymlink(e))
                 /\ Log(p, "symlink_" \o e)
                 /\ UNCHANGED err
    /\ UNCHANGED <<marker, deps, spark_bin, staged_scripts, helper_target,
                   helper_src, shell_src, internal_dir, shell_target,
                   in_spark, long_description, scripts, masked, setup_calls, replaced, preceded>>

\* ConvertReadme with the assignment of line 42 forgotten: ImportError is
\* caught, but long_description stays unbound.
ConvertReadme_NoPlaceholder(p) ==
    /\ pc[p] = "convert"
    /\ \E outcome \in {"converted", "ImportError", "ConverterError"} :
          CASE outcome = "converted" ->
                 /\ long_description' = [long_description EXCEPT ![p] = Converted]
                 /\ Goto(p, "validate")
                 /\ Log(p, "convert")
                 /\ UNCHANGED err
            [] outcome = "ImportError" ->
                 /\ Goto(p, "validate")
                 /\ Log(p, "placeholder")
                 /\ UNCHANGED <<err, long_description>>
            [] outcome = "ConverterError" ->
                 /\ Raise(p, "ConverterError")
                 /\ UNCHANGED <<long_description, trace>>
    /\ UNCHANGED <<fs, in_spark, scripts, masked, setup_calls, replaced, preceded>>

\* lines 37-42: import pypandoc and convert README.md.  Only ImportError is
\* caught, and then the placeholder is used; any other exception propagates.
ConvertReadme(p) ==
    /\ pc[p] = "convert"
    /\ \E outcome \in {"converted", "ImportError", "ConverterError"} :
          CASE outcome = "converted" ->
                 /\ long_description' = [long_description EXCEPT ![p] = Converted]
                 /\ Goto(p, "validate")
                 /\ Log(p, "convert")
                 /\ UNCHANGED err
            [] outcome = "ImportError" ->
                 /\ long_description' = [long_description EXCEPT ![p] = Placeholder]
                 /\ Goto(p, "validate")
                 /\ Log(p, "placeholder")
                 /\ UNCHANGED err
            [] outcome = "ConverterError" ->
                 /\ Raise(p, "ConverterError")
                 /\ UNCHANGED <<long_description, trace>>
    /\ UNCHANGED <<fs, in_spark, scripts, masked, setup_calls, replaced, preceded>>

\* line 49: copyfile("pyspark/find_spark_home.py", SCRIPTS_TARGET + "/find_spark_home.py").
\* It raises IOError when the source is no file or deps/bin is no directory;
\* an existing target is opened for writing and overwritten.
CopyHelper(p) ==
    /\ pc[p] = "copy_helper"
    /\ IF helper_src = 0 \/ ~ScriptsTargetIsDir
         THEN /\ Raise(p, "CopyError")
              /\ UNCHANGED <<helper_target, trace, replaced>>
         ELSE /\ helper_target' = helper_src
              /\ replaced' = [replaced EXCEPT ![p] =
                                 IF helper_target # 0 THEN @ \cup {"helper"} ELSE @]
              /\ Goto(p, "makedirs")
              /\ Log(p, "copy_helper")
              /\ UNCHANGED err
    /\ UNCHANGED <<marker, deps, entry, spark_bin, staged_scripts,
                   helper_src, shell_src, internal_dir, shell_target,
                   in_spark, long_description, scripts, masked, setup_calls, preceded>>

\* MakeInternalDir as os.makedirs(..., exist_ok=True) would behave.
MakeInternalDir_ExistOk(p) ==
    /\ pc[p] = "makedirs"
    /\ internal_dir' = TRUE
    /\ Goto(p, "copy_shell")
    /\ Log(p, "makedirs")
    /\ UNCHANGED <<marker, deps, entry, spark_bin, staged_scripts, helper_target,
                   helper_src, shell_src, shell_target,
                   in_spark, long_description, scripts, err, masked, setup_calls,
                   replaced, preceded>>

\* line 53: os.makedirs("pyspark/python/pyspark"): OSError when it exists.
MakeInternalDir(p) ==
    /\ pc[p] = "makedirs"
    /\ IF internal_dir
         THEN /\ Raise(p, "MakedirsError")
              /\ UNCHANGED <<internal_dir, trace>>
         ELSE /\ internal_dir' = TRUE
              /\ Goto(p, "copy_shell")
              /\ Log(p, "makedirs")
              /\ UNCHANGED err
    /\ UNCHANGED <<marker, deps, entry, spark_bin, staged_scripts, helper_target,
                   helper_src, shell_src, shell_target,
                   in_spark, long_description, scripts, masked, setup_calls, replaced, preceded>>

\* CopyShell with the source of the other copy: find_spark_home.py is copied
\* to the shell target.
CopyShell_WrongSource(p) ==
    /\ pc[p] = "copy_shell"
    /\ IF helper_src = 0 \/ ~internal_dir
         THEN /\ Raise(p, "CopyError")
              /\ UNCHANGED <<shell_target, trace, replaced>>
         ELSE /\ shell_target' = helper_src
              /\ replaced' = [replaced EXCEPT ![p] =
                                 IF shell_target # 0 THEN @ \cup {"shell"} ELSE @]
              /\ Goto(p, "validate")
              /\ Log(p, "copy_shell")
              /\ UNCHANGED err
    /\ UNCHANGED <<marker, deps, entry, spark_bin, staged_scripts, helper_target,
                   helper_src, shell_src, internal_dir,
                   in_spark, long_description, scripts, masked, setup_calls, preceded>>

\* line 54: copyfile("pyspark/shell.py", "pyspark/python/pyspark/shell.py").
CopyShell(p) ==
    /\ pc[p] = "copy_shell"
    /\ IF shell_src = 0 \/ ~internal_dir
         THEN /\ Raise(p, "CopyError")
              /\ UNCHANGED <<shell_target, trace, replaced>>
         ELSE /\ shell_target' = shell_src
              /\ replaced' = [replaced EXCEPT ![p] =
                                 IF shell_target # 0 THEN @ \cup {"shell"} ELSE @]
              /\ Goto(p, "validate")
              /\ Log(p, "copy_shell")
              /\ UNCHANGED err
    /\ UNCHANGED <<marker, deps, entry, spark_bin, staged_scripts, helper_target,
                   helper_src, shell_src, internal_dir,
                   in_spark, long_description, scripts, masked, setup_calls, preceded>>

\* ValidateScripts with the test of line 56 left out.
ValidateScripts_NoCheck(p) ==
    /\ pc[p] = "validate"
    /\ Goto(p, "listdir")
    /\ Log(p, "validate")
    /\ UNCHANGED <<fs, in_spark, long_description, scripts, err, masked, setup_calls,
                   replaced, preceded>>

\* lines 56-58: if not os.path.isdir(SCRIPTS_TARGET): print and exit(-1).  The
\* SystemExit is raised inside the try block.
ValidateScripts(p) ==
    /\ pc[p] = "validate"
    /\ IF ScriptsTargetIsDir
         THEN /\ Goto(p, "listdir")
              /\ Log(p, "validate")
              /\ UNCHANGED err
         ELSE /\ Raise(p, "MissingArtifactsExit")
              /\ UNCHANGED trace
    /\ UNCHANGED <<fs, in_spark, long_description, scripts, masked, setup_calls, replaced, preceded>>

\* lines 61-62: script_names = os.listdir(SCRIPTS_TARGET); scripts is each name
\* prefixed with SCRIPTS_TARGET + "/".
ListScripts(p) ==
    /\ pc[p] = "listdir"
    /\ IF ScriptsTargetIsDir
         THEN /\ scripts' = [scripts EXCEPT ![p] =
                               {SCRIPTS_TARGET \o "/" \o n : n \in ScriptNames}]
              /\ Goto(p, "setup")
              /\ Log(p, "listdir")
              /\ UNCHANGED err
         ELSE /\ Raise(p, "ListdirError")
              /\ UNCHANGED <<scripts, trace>>
    /\ UNCHANGED <<fs, in_spark, long_description, masked, setup_calls, replaced, preceded>>

\* lines 64-102: setup(...).  The arguments are evaluated first: the name
\* long_description is bound only by lines 39 and 42, so reading it on the
\* other branch raises NameError before setup is called.  setup itself
\* returns or raises.
CallSetup(p) ==
    /\ pc[p] = "setup"
    /\ IF long_description[p] = Undefined
         THEN /\ Raise(p, "NameError")
              /\ UNCHANGED <<setup_calls, trace>>
         ELSE /\ setup_calls' = [setup_calls EXCEPT ![p] =
                     @ \cup {[name |-> "pyspark",
                              long_description |-> long_description[p],
                              scripts |-> scripts[p],
                              farm |-> entry]}]
              /\ Log(p, "setup")
              /\ \E raises \in BOOLEAN :
                    IF raises
                      THEN Raise(p, "ArchiverError")
                      ELSE Goto(p, "finally") /\ UNCHANGED err
    /\ UNCHANGED <<fs, in_spark, long_description, scripts, masked, replaced, preceded>>

\* Finally with the cleanup left out: the module ends with the farm in place.
Finally_SkipsTeardown(p) ==
    /\ pc[p] = "finally"
    /\ Log(p, "finally")
    /\ Goto(p, "done")
    /\ UNCHANGED <<fs, in_spark, long_description, scripts, err, masked,
                   setup_calls, replaced, preceded>>

\* Finally with the test of line 106 left out: the cleanup runs in every context.
Finally_Unconditional(p) ==
    /\ pc[p] = "finally"
    /\ Log(p, "finally")
    /\ Goto(p, "remove_jars")
    /\ UNCHANGED <<fs, in_spark, long_description, scripts, err, masked,
                   setup_calls, replaced, preceded>>

\* lines 103-106: the finally block is entered; outside of Spark it does
\* nothing and the module ends (re-raising what was propagating).
Finally(p) ==
    /\ pc[p] = "finally"
    /\ Log(p, "finally")
    /\ Goto(p, IF in_spark[p] THEN "remove_jars" ELSE "done")
    /\ UNCHANGED <<fs, in_spark, long_description, scripts, err, masked,
                   setup_calls, replaced, preceded>>

AfterRemove(e) ==
    CASE e = "jars" -> "remove_bin"
      [] e = "bin" -> "remove_examples"
      [] e = "examples" -> "rmdir"

\* Remove that leaves the entry where it is (the call of os.remove left out).
Remove_Skipped(p, e) ==
    /\ pc[p] = "remove_" \o e
    /\ Goto(p, AfterRemove(e))
    /\ UNCHANGED <<fs, in_spark, long_description, scripts, err, masked, setup_calls,
                   trace, replaced, preceded>>

\* lines 107-109: os.remove(deps/<e>).  It removes a file or a symlink, and
\* raises OSError when there is nothing at the path or a directory.
Remove(p, e) ==
    /\ pc[p] = "remove_" \o e
    /\ IF entry[e] = "link"
         THEN /\ entry' = [entry EXCEPT ![e] = "absent"]
              /\ Goto(p, AfterRemove(e))
              /\ Log(p, "remove_" \o e)
              /\ UNCHANGED <<err, masked>>
         ELSE /\ RaiseInFinally(p)
              /\ UNCHANGED <<entry, trace>>
    /\ UNCHANGED <<marker, deps, spark_bin, staged_scripts, helper_target,
                   helper_src, shell_src, internal_dir, shell_target,
                   in_spark, long_description, scripts, setup_calls, replaced, preceded>>

\* RemoveStagingRoot that reports the removal and leaves deps in place.
RemoveStagingRoot_Forgotten(p) ==
    /\ pc[p] = "rmdir"
    /\ Goto(p, "done")
    /\ Log(p, "rmdir")
    /\ UNCHANGED <<fs, in_spark, long_description, scripts, err, masked, setup_calls,
                   replaced, preceded>>

\* line 110: os.rmdir(TEMP_PATH): OSError when deps is missing or not empty.
\* It is the last statement: the module ends, re-raising what was propagating.
RemoveStagingRoot(p) ==
    /\ pc[p] = "rmdir"
    /\ IF deps /\ \A e \in Entries : entry[e] = "absent"
         THEN /\ deps' = FALSE
              /\ Goto(p, "done")
              /\ Log(p, "rmdir")
              /\ UNCHANGED <<err, masked>>
         ELSE /\ RaiseInFinally(p)
              /\ UNCHANGED <<deps, trace>>
    /\ UNCHANGED <<marker, entry, spark_bin, staged_scripts, helper_target,
                   helper_src, shell_src, internal_dir, shell_target,
                   in_spark, long_description, scripts, setup_calls, replaced, preceded>>

Next ==
    \E p \in Runs :
        \/ DetectContext(p)
        \/ MakeStagingRoot(p)
        \/ \E e \in Entries : Symlink(p, e)
        \/ ConvertReadme(p)
        \/ CopyHelper(p)
        \/ MakeInternalDir(p)
        \/ CopyShell(p)
        \/ ValidateScripts(p)
        \/ ListScripts(p)
        \/ CallSetup(p)
        \/ Finally(p)
        \/ \E e \in Entries : Remove(p, e)
        \/ RemoveStagingRoot(p)

Spec == Init /\ [][Next]_vars

(***************************************************************************)
(* Vocabulary of the properties.                                           *)
(***************************************************************************)

\* True of a trace that holds the effect ev.
Has(t, ev) == \E i \in 1..Len(t) : t[i] = ev

\* How many times the effect ev is in a trace.
Count(t, ev) == Cardinality({i \in 1..Len(t) : t[i] = ev})

\* Where the effect ev is in a trace (0: nowhere).
Pos(t, ev) == IF Has(t, ev) THEN CHOOSE i \in 1..Len(t) : t[i] = ev ELSE 0

\* Run p takes the step that ends it.
Ends(p) == pc[p] # "done" /\ pc'[p] = "done"

\* Run p takes the step of the statement labelled l.
Leaves(p, l) == pc[p] = l /\ pc'[p] # l

FarmAbsent == \A e \in Entries : entry[e] = "absent"

FarmIntact == \A e \in Entries : entry[e] = "link"

TeardownPcs == {"finally", "remove_jars", "remove_bin", "remove_examples", "rmdir"}

(***************************************************************************)
(* C1: an InTree run that made the staging root itself and in which        *)
(* linking, conversion, validation and the archiver all succeeded ends     *)
(* with no staging root, none of the three entries, and exit status 0.     *)
(***************************************************************************)
C1_CleanAfterSuccess ==
    [][\A p \in Runs :
          (/\ Ends(p)
           /\ in_spark[p]
           /\ Has(trace'[p], "mkdir")
           /\ Has(trace'[p], "setup")
           /\ "ArchiverError" \notin {err'[p], masked'[p]})
          => (/\ ~deps'
              /\ FarmAbsent'
              /\ ExitStatus(err'[p]) = 0)]_vars

C1_Witness ==
    \E p \in Runs :
        /\ pc[p] = "done" /\ in_spark[p]
        /\ Has(trace[p], "mkdir") /\ Has(trace[p], "setup") /\ Has(trace[p], "rmdir")
        /\ err[p] = "None"
        /\ ~deps

(***************************************************************************)
(* C2: in an InTree run whose archiver (setup) raises, the finally block   *)
(* runs once, after the call; the run ends with no entry and no staging    *)
(* root, and the exception that leaves the module is the archiver's.       *)
(***************************************************************************)
C2_ArchiverErrorSurfaces ==
    [][\A p \in Runs :
          (/\ Ends(p)
           /\ in_spark[p]
           /\ "ArchiverError" \in {err'[p], masked'[p]})
          => (/\ err'[p] = "ArchiverError"
              /\ Count(trace'[p], "finally") = 1
              /\ \A e \in Entries : Count(trace'[p], "remove_" \o e) = 1
              /\ Count(trace'[p], "rmdir") = 1
              /\ \E i, j \in 1..Len(trace'[p]) :
                    i < j /\ trace'[p][i] = "setup" /\ trace'[p][j] = "finally"
              /\ ~deps'
              /\ FarmAbsent')]_vars

C2_Witness ==
    \E p \in Runs :
        /\ pc[p] = "done" /\ in_spark[p]
        /\ err[p] = "ArchiverError"
        /\ Has(trace[p], "rmdir")
        /\ ~deps

(***************************************************************************)
(* C3: a Staged run that made both copies, passed validation and listed a  *)
(* non-empty scripts directory calls the archiver with every field of the  *)
(* metadata defined, and ends with exit status 0 unless the archiver       *)
(* itself raises.                                                          *)
(***************************************************************************)
C3_StagedRunSucceeds ==
    \A p \in Runs :
        (/\ pc[p] = "done"
         /\ ~in_spark[p]
         /\ Has(trace[p], "copy_helper") /\ Has(trace[p], "copy_shell")
         /\ Has(trace[p], "listdir")
         /\ scripts[p] # {})
        => (/\ setup_calls[p] # {}
            /\ \A c \in setup_calls[p] : c.long_description # Undefined
            /\ err[p] # "ArchiverError" => ExitStatus(err[p]) = 0)

(***************************************************************************)
(* C4 as stated: when line 56 is executed and deps/bin is a directory with *)
(* nothing in it, the run fails there with the missing-artifacts exit and  *)
(* goes on to neither os.listdir nor setup.                                *)
(***************************************************************************)
C4_EmptyScriptsDirFails ==
    [][\A p \in Runs :
          (Leaves(p, "validate") /\ ScriptsTargetIsDir /\ ScriptNames = {})
          => (err'[p] = "MissingArtifactsExit" /\ pc'[p] = "finally")]_vars

(***************************************************************************)
(* C4 amended: when line 56 is executed and deps/bin is not an existing    *)
(* directory, the run fails there with exit(-1) (status 255) and performs  *)
(* neither os.listdir nor setup; any existing directory, an empty one      *)
(* included, passes.                                                       *)
(***************************************************************************)
C4_MissingScriptsDirFails ==
    /\ [][\A p \in Runs :
             Leaves(p, "validate")
             => IF ScriptsTargetIsDir
                  THEN pc'[p] = "listdir" /\ err'[p] = "None"
                  ELSE pc'[p] = "finally" /\ err'[p] = "MissingArtifactsExit"]_vars
    /\ [](\A p \in Runs :
             "MissingArtifactsExit" \in {err[p], masked[p]}
             => (/\ ~Has(trace[p], "listdir")
                 /\ setup_calls[p] = {}
                 /\ pc[p] = "done" => ExitStatus(err[p]) # 0))

C4_Witness ==
    \E p \in Runs :
        /\ pc[p] = "done"
        /\ err[p] = "MissingArtifactsExit"
        /\ ~ScriptsTargetIsDir

(***************************************************************************)
(* C5 as stated: of two InTree runs, the second started after the first    *)
(* had ended, the second fails at os.mkdir with the already-staged exit    *)
(* and makes no link.                                                      *)
(***************************************************************************)
C5_SecondRunFails ==
    \A p, q \in Runs :
        (/\ p \in preceded[q]
         /\ in_spark[p] /\ in_spark[q]
         /\ pc[q] \notin {"start", "mkdir"})
        => (err[q] = "AlreadyStagedExit" /\ trace[q] = <<>>)

(***************************************************************************)
(* C5 amended: of two InTree runs in sequence, with no other run at work,  *)
(* the second fails at os.mkdir with the already-staged exit (and has no   *)
(* effect) exactly when the first left the staging root behind, that is    *)
(* when the first did not get to remove it with os.rmdir; after a first    *)
(* run that removed it, the second run makes the staging root again.       *)
(***************************************************************************)
C5_SecondRunFailsIffRootLeft ==
    \A p, q \in Runs :
        (/\ p \in preceded[q]
         /\ in_spark[p] /\ in_spark[q]
         /\ pc[q] \notin {"start", "mkdir"}
         /\ \A r \in Runs \ {p, q} : pc[r] = "start")
        => IF Has(trace[p], "rmdir")
             THEN err[q] # "AlreadyStagedExit" /\ Has(trace[q], "mkdir")
             ELSE /\ err[q] = "AlreadyStagedExit"
                  /\ pc[q] = "done"
                  /\ trace[q] = <<>>
                  /\ ExitStatus(err[q]) # 0

C5_Witness ==
    \E p, q \in Runs :
        /\ p \in preceded[q]
        /\ in_spark[p] /\ in_spark[q]
        /\ Has(trace[p], "mkdir") /\ ~Has(trace[p], "rmdir")
        /\ err[q] = "AlreadyStagedExit"

(***************************************************************************)
(* C6: when a statement of the finally block raises while an exception of  *)
(* the try block is propagating, the exception that leaves the module is   *)
(* the one of the try block.                                               *)
(***************************************************************************)
C6_PackagingErrorReported ==
    \A p \in Runs :
        (pc[p] = "done" /\ masked[p] # "None") => err[p] = masked[p]

(***************************************************************************)
(* C7: outside of Spark the staging root is never made and the sources of  *)
(* the two copies never change; once a run has made both copies, each      *)
(* target exists and holds what its source holds.                          *)
(***************************************************************************)
C7_StagedCopies ==
    /\ [][~marker => /\ ~deps => ~deps'
                     /\ helper_src' = helper_src
                     /\ shell_src' = shell_src]_vars
    /\ [](\A p \in Runs :
             (~marker /\ Has(trace[p], "copy_shell"))
             => (/\ helper_target # 0 /\ helper_target = helper_src
                 /\ shell_target # 0 /\ shell_target = shell_src))

C7_Witness ==
    \E p \in Runs :
        /\ ~marker /\ ~in_spark[p]
        /\ Has(trace[p], "copy_helper") /\ Has(trace[p], "copy_shell")
        /\ "helper" \in replaced[p]
        /\ helper_src # shell_src
        /\ pc[p] = "done"

(***************************************************************************)
(* C8: an InTree run in which importing pypandoc fails passes the          *)
(* placeholder to setup, runs the whole teardown, and ends with status 0   *)
(* unless validation or setup fail; any other failure of the converter     *)
(* leaves the module as it is, after the whole teardown and without a call *)
(* of setup.                                                               *)
(***************************************************************************)
C8_ConverterUnavailable ==
    [][\A p \in Runs :
          Ends(p) =>
            /\ Has(trace'[p], "placeholder")
               => (/\ err'[p] \in {"None", "MissingArtifactsExit", "ArchiverError"}
                   /\ err'[p] # "MissingArtifactsExit"
                      => (/\ setup_calls'[p] # {}
                          /\ \A c \in setup_calls'[p] : c.long_description = Placeholder)
                   /\ Has(trace'[p], "finally") /\ Has(trace'[p], "rmdir")
                   /\ ~deps')
            /\ "ConverterError" \in {err'[p], masked'[p]}
               => (/\ err'[p] = "ConverterError"
                   /\ setup_calls'[p] = {}
                   /\ Has(trace'[p], "finally") /\ Has(trace'[p], "rmdir")
                   /\ ~deps')]_vars

C8_Witness ==
    \E p \in Runs :
        /\ pc[p] = "done" /\ in_spark[p]
        /\ Has(trace[p], "placeholder")
        /\ err[p] = "None"
        /\ \E c \in setup_calls[p] : c.long_description = Placeholder
        /\ Has(trace[p], "rmdir")

(***************************************************************************)
(* C9 as stated: whenever one of the three links or one of the two copies  *)
(* is about to be made and its target exists, the step leaves the target   *)
(* as it is, and the run ends with a non-zero exit status.                 *)
(***************************************************************************)
C9_CollisionIsFatal ==
    /\ [][\A p \in Runs :
             /\ \A e \in Entries :
                   (Leaves(p, "symlink_" \o e) /\ entry[e] # "absent")
                   => (entry'[e] = entry[e] /\ err'[p] # "None")
             /\ (Leaves(p, "copy_helper") /\ helper_target # 0)
                => helper_target' = helper_target
             /\ ((Leaves(p, "makedirs") \/ Leaves(p, "copy_shell")) /\ shell_target # 0)
                => shell_target' = shell_target]_vars
    /\ [](\A p \in Runs :
             (pc[p] = "done" /\ (replaced[p] # {} \/ "MakedirsError" \in {err[p], masked[p]}))
             => ExitStatus(err[p]) # 0)

(***************************************************************************)
(* C9 amended: the target of a link never exists when the link is about to *)
(* be made; an existing pyspark/python/pyspark (and so an existing         *)
(* shell.py in it) makes os.makedirs fail the run with the target          *)
(* untouched, and the shell copy never finds its target; but the helper    *)
(* copy overwrites an existing deps/bin/find_spark_home.py with the        *)
(* content of its source, and the run goes on.                             *)
(***************************************************************************)
C9_CollisionExceptHelper ==
    /\ [](\A p \in Runs : \A e \in Entries :
             pc[p] = "symlink_" \o e => (deps /\ entry[e] = "absent"))
    /\ [](\A p \in Runs :
             /\ pc[p] = "copy_shell" => shell_target = 0
             /\ "shell" \notin replaced[p])
    /\ [][\A p \in Runs :
             /\ (Leaves(p, "makedirs") /\ internal_dir)
                => (/\ shell_target' = shell_target
                    /\ err'[p] = "MakedirsError"
                    /\ pc'[p] = "finally")
             /\ (Leaves(p, "copy_helper") /\ helper_target # 0
                    /\ helper_src # 0 /\ ScriptsTargetIsDir)
                => (/\ helper_target' = helper_src
                    /\ err'[p] = "None"
                    /\ pc'[p] = "makedirs")]_vars
    /\ [](\A p \in Runs :
             "MakedirsError" \in {err[p], masked[p]}
             => (pc[p] = "done" => ExitStatus(err[p]) # 0))

C9_Witness ==
    \E p \in Runs :
        /\ pc[p] = "makedirs"
        /\ "helper" \in replaced[p]
        /\ helper_target = helper_src
        /\ err[p] = "None"

(***************************************************************************)
(* C10: with InTree runs interleaved step by step, a run whose os.mkdir    *)
(* finds the staging root fails there with the already-staged exit and has *)
(* no effect on the filesystem, before or after; a run that has made the   *)
(* three links finds them and the staging root in place at every statement *)
(* up to and including the call of setup.                                  *)
(***************************************************************************)
C10_LoserTouchesNothing ==
    /\ [][\A p \in Runs :
             (Leaves(p, "mkdir") /\ deps)
             => (/\ err'[p] = "AlreadyStagedExit"
                 /\ pc'[p] = "done"
                 /\ fs' = fs)]_vars
    /\ [](\A p \in Runs :
             err[p] = "AlreadyStagedExit" => (pc[p] = "done" /\ trace[p] = <<>>))
    /\ [](\A p \in Runs :
             (in_spark[p] /\ pc[p] \in {"convert", "validate", "listdir", "setup"})
             => (deps /\ FarmIntact))
    /\ [](\A p \in Runs : \A c \in setup_calls[p] :
             in_spark[p] => \A e \in Entries : c.farm[e] = "link")

C10_Witness ==
    \E p, q \in Runs :
        /\ p # q
        /\ p \notin preceded[q] /\ q \notin preceded[p]
        /\ err[q] = "AlreadyStagedExit"
        /\ Has(trace[p], "mkdir")
        /\ setup_calls[p] # {}
        /\ pc[p] \in TeardownPcs

(***************************************************************************)
(* C11: an InTree run that made the staging root and in which one of the   *)
(* three os.symlink calls failed ends with no staging root and no link.    *)
(***************************************************************************)
C11_NoPartialState ==
    [][\A p \in Runs :
          (/\ Ends(p)
           /\ in_spark[p]
           /\ Has(trace'[p], "mkdir")
           /\ "LinkError" \in {err'[p], masked'[p]})
          => (~deps' /\ FarmAbsent')]_vars

(***************************************************************************)
(* C12: an InTree run whose os.mkdir finds the staging root ends there     *)
(* with a non-zero exit status: it has made no link, called neither the    *)
(* converter nor setup, and entered no finally block; and a staging root   *)
(* that no running run has made is changed by no step, nor is anything     *)
(* under it.                                                               *)
(***************************************************************************)
C12_ExistingRootIsLeftAlone ==
    /\ [][\A p \in Runs :
             (Leaves(p, "mkdir") /\ deps)
             => (/\ Ends(p)
                 /\ ExitStatus(err'[p]) # 0
                 /\ trace'[p] = <<>>
                 /\ long_description'[p] = Undefined
                 /\ setup_calls'[p] = {}
                 /\ deps' /\ entry' = entry)]_vars
    /\ [][(deps /\ \A p \in Runs : ~(Has(trace[p], "mkdir") /\ pc[p] # "done"))
             => (deps' /\ entry' = entry)]_vars
    /\ [](\A p \in Runs :
             err[p] = "AlreadyStagedExit"
             => (/\ ~Has(trace[p], "finally")
                 /\ \A e \in Entries : ~Has(trace[p], "remove_" \o e)
                 /\ masked[p] = "None"))

C12_Witness ==
    \E p \in Runs :
        /\ marker
        /\ pc[p] = "done"
        /\ err[p] = "AlreadyStagedExit"
        /\ \A q \in Runs \ {p} : pc[q] = "start"
        /\ deps /\ FarmIntact

(***************************************************************************)
(* C13: an InTree run that fails at line 56 because deps/bin is no         *)
(* directory ends with the missing-artifacts exit (status 255), without a  *)
(* call of setup, and after the finally block has removed the three links  *)
(* and the staging root.                                                   *)
(***************************************************************************)
C13_ValidationFailureCleansUp ==
    [][\A p \in Runs :
          (/\ Ends(p)
           /\ in_spark[p]
           /\ "MissingArtifactsExit" \in {err'[p], masked'[p]})
          => (/\ err'[p] = "MissingArtifactsExit"
              /\ ExitStatus(err'[p]) = 255
              /\ setup_calls'[p] = {}
              /\ ~Has(trace'[p], "listdir")
              /\ \A e \in Entries : Has(trace'[p], "remove_" \o e)
              /\ Has(trace'[p], "rmdir")
              /\ ~deps' /\ FarmAbsent')]_vars

C13_Witness ==
    \E p \in Runs :
        /\ pc[p] = "done" /\ in_spark[p]
        /\ ~spark_bin.exists
        /\ err[p] = "MissingArtifactsExit"
        /\ Has(trace[p], "symlink_bin") /\ Has(trace[p], "remove_bin")
        /\ Has(trace[p], "rmdir")
        /\ ~deps

(***************************************************************************)
(* C14: a Staged run in a tree where deps/bin is no directory (and the     *)
(* helper source exists) ends with the missing-artifacts exit of line 58,  *)
(* without a call of setup.                                                *)
(***************************************************************************)
C14_StagedMissingScriptsDir ==
    \A p \in Runs :
        (/\ pc[p] = "done"
         /\ ~marker /\ ~in_spark[p]
         /\ helper_src # 0
         /\ ~ScriptsTargetIsDir)
        => (err[p] = "MissingArtifactsExit" /\ setup_calls[p] = {})

(***************************************************************************)
(* Order of the effects of a run, read from its trace.                     *)
(***************************************************************************)

\* The effect a is in the trace, and before the effect b.
Before(t, a, b) == Has(t, a) /\ Has(t, b) /\ Pos(t, a) < Pos(t, b)

\* The converter returned or was found missing.
ConverterEffects == {"convert", "placeholder"}

\* Both readings of C15 agree on the archiver, the enumeration and the
\* teardown: setup is called after validation and enumeration, in that
\* order; and a removal comes after the finally block is entered, which
\* comes after the call of setup when there is one.
ArchiverAndTeardownOrder(t) ==
    /\ Has(t, "listdir") => Before(t, "validate", "listdir")
    /\ Has(t, "setup") => Before(t, "listdir", "setup")
    /\ \A r \in {"remove_jars", "remove_bin", "remove_examples", "rmdir"} :
          Has(t, r) => (/\ Before(t, "finally", r)
                        /\ Has(t, "setup") => Before(t, "setup", "finally"))

\* Validation comes after the whole linkage or copy step.
LinkageBeforeValidation(p) ==
    Has(trace[p], "validate")
    => IF in_spark[p]
         THEN \A e \in Entries : Before(trace[p], "symlink_" \o e, "validate")
         ELSE /\ Before(trace[p], "copy_helper", "makedirs")
              /\ Before(trace[p], "makedirs", "copy_shell")
              /\ Before(trace[p], "copy_shell", "validate")

(***************************************************************************)
(* C15 as stated: in every run the converter and the archiver are called   *)
(* only after the linkage or copy step and after validation has passed;    *)
(* the enumeration is between validation and the call of the archiver; no  *)
(* removal of the teardown comes before the archiver call.                 *)
(***************************************************************************)
C15_StrictSequence ==
    \A p \in Runs :
        /\ LinkageBeforeValidation(p)
        /\ ArchiverAndTeardownOrder(trace[p])
        /\ \A c \in ConverterEffects :
              Has(trace[p], c) => Before(trace[p], "validate", c)
        /\ pc[p] = "convert" => Has(trace[p], "validate")

(***************************************************************************)
(* C15 amended: the converter is called after the three links are made     *)
(* and before validation; the archiver is called only after the linkage or *)
(* copy step, validation and the enumeration, in that order; no removal of *)
(* the teardown comes before the finally block is entered, nor before the  *)
(* archiver call when there is one.                                        *)
(***************************************************************************)
C15_ConverterBeforeValidation ==
    \A p \in Runs :
        /\ LinkageBeforeValidation(p)
        /\ ArchiverAndTeardownOrder(trace[p])
        /\ \A c \in ConverterEffects :
              Has(trace[p], c)
              => (/\ \A e \in Entries : Before(trace[p], "symlink_" \o e, c)
                  /\ Has(trace[p], "validate") => Before(trace[p], c, "validate"))
        /\ (pc[p] = "convert" \/ "ConverterError" \in {err[p], masked[p]})
           => (/\ \A e \in Entries : Has(trace[p], "symlink_" \o e)
               /\ ~Has(trace[p], "validate"))
        /\ (in_spark[p] /\ Has(trace[p], "validate"))
           => \E c \in ConverterEffects : Has(trace[p], c)

C15_Witness ==
    \E p \in Runs :
        /\ pc[p] = "done"
        /\ Before(trace[p], "symlink_examples", "convert")
        /\ Before(trace[p], "convert", "validate")
        /\ Before(trace[p], "validate", "listdir")
        /\ Before(trace[p], "listdir", "setup")
        /\ Before(trace[p], "setup", "finally")
        /\ Before(trace[p], "finally", "remove_jars")
        /\ Before(trace[p], "remove_examples", "rmdir")

(***************************************************************************)
(* C16: the context of a run is the value in_spark got at line 21 and it   *)
(* never changes; a run is at the os.mkdir, at an os.symlink, at an        *)
(* os.remove or at the os.rmdir only in Spark; a run ends with a removal   *)
(* attempted exactly when it has made the staging root itself; outside of  *)
(* Spark the finally block and every other step leave the staging root and *)
(* its entries as they are.                                                *)
(***************************************************************************)
LinkagePcs ==
    {"mkdir", "symlink_jars", "symlink_bin", "symlink_examples"}

RemovalPcs == {"remove_jars", "remove_bin", "remove_examples", "rmdir"}

C16_ContextGovernsTeardown ==
    /\ [](\A p \in Runs :
             /\ pc[p] # "start" => in_spark[p] = marker
             /\ pc[p] \in LinkagePcs \cup RemovalPcs => in_spark[p]
             /\ pc[p] \in RemovalPcs => Has(trace[p], "mkdir")
             /\ ~in_spark[p]
                => (/\ ~Has(trace[p], "mkdir") /\ ~Has(trace[p], "rmdir")
                    /\ \A e \in Entries :
                          /\ ~Has(trace[p], "symlink_" \o e)
                          /\ ~Has(trace[p], "remove_" \o e)))
    /\ [][\A p \in Runs :
             /\ pc[p] # "start" => in_spark'[p] = in_spark[p]
             /\ Ends(p) => (Has(trace'[p], "mkdir") <=> pc[p] \in RemovalPcs)
             /\ (Leaves(p, "finally") /\ ~in_spark[p]) => (Ends(p) /\ fs' = fs)]_vars
    /\ [][~marker => (deps' = deps /\ entry' = entry)]_vars

C16_Witness ==
    \E p \in Runs :
        /\ ~marker /\ ~in_spark[p]
        /\ pc[p] = "done"
        /\ Has(trace[p], "finally")
        /\ Has(trace[p], "listdir")
        /\ deps /\ \A e \in Entries : entry[e] = "dir"

====
